---- MODULE Spec2Model ----
(***************************************************************************)
(* Model of the web proxy of src/unnamed/part_000 (the "fixed version",    *)
(* lines 218-596): the destination guard isBlockedUrl, the redirect-       *)
(* following client nativeFetch, the /fetch and /search handlers, and the  *)
(* link-rewriting passes of /search.                                       *)
(*                                                                         *)
(* Text is a sequence of one-character strings, so that lower-casing,      *)
(* number formatting and regular-expression matching are computed.         *)
(***************************************************************************)
EXTENDS Integers, Sequences, FiniteSets, TLC

VARIABLES gUrl, gOut, active, req, chain, page

vars == <<gUrl, gOut, active, req, chain, page>>

(***************************************************************************)
(* Text                                                                    *)
(***************************************************************************)
UpperChars == <<"A","B","C","D","E","F","G","H","I","J","K","L","M",
                "N","O","P","Q","R","S","T","U","V","W","X","Y","Z">>

LowerChars == <<"a","b","c","d","e","f","g","h","i","j","k","l","m",
                "n","o","p","q","r","s","t","u","v","w","x","y","z">>

DigitChars == <<"0","1","2","3","4","5","6","7","8","9">>

HexChars == DigitChars \o <<"a","b","c","d","e","f">>

\* the lower-case letter of each upper-case letter
LowerOf ==
  [u \in {UpperChars[i] : i \in 1..26} |->
     LowerChars[CHOOSE i \in 1..26 : UpperChars[i] = u]]

LowerChar(c) == IF c \in DOMAIN LowerOf THEN LowerOf[c] ELSE c

\* String.prototype.toLowerCase
ToLower(s) == [i \in 1..Len(s) |-> LowerChar(s[i])]

\* String.prototype.startsWith, the matching of an anchored literal prefix
StartsWith(s, p) == Len(s) >= Len(p) /\ SubSeq(s, 1, Len(p)) = p

RECURSIVE Dec(_)
\* decimal text of a number, as the URL serializer writes an IPv4 octet
Dec(n) == IF n < 10 THEN <<DigitChars[n + 1]>>
          ELSE Dec(n \div 10) \o <<DigitChars[(n % 10) + 1]>>

RECURSIVE Hex(_)
\* lower-case hexadecimal text of a number, as the URL serializer writes an
\* IPv6 piece
Hex(n) == IF n < 16 THEN <<HexChars[n + 1]>>
          ELSE Hex(n \div 16) \o <<HexChars[(n % 16) + 1]>>

T_http == <<"h","t","t","p">>
T_https == <<"h","t","t","p","s">>
T_ftp == <<"f","t","p">>
T_file == <<"f","i","l","e">>
T_javascript == <<"j","a","v","a","s","c","r","i","p","t">>
T_localhost == <<"l","o","c","a","l","h","o","s","t">>
T_example == <<"e","x","a","m","p","l","e",".","c","o","m">>
T_metadata == <<"m","e","t","a","d","a","t","a",".","g","o","o","g","l","e",".",
                "i","n","t","e","r","n","a","l">>
T_ddg == <<"l","i","t","e",".","d","u","c","k","d","u","c","k","g","o",".",
           "c","o","m">>

(***************************************************************************)
(* URLs.  A URL string is kept by its parts as written: kind "abs" is a    *)
(* text with a scheme, "rel" an absolute-path reference without one,       *)
(* "bad" a text no parser accepts (http://[x), "none" the empty or missing *)
(* string and "null" the value null.                                       *)
(***************************************************************************)
NoHost == [t |-> "none", name |-> <<>>, nums |-> <<>>]
NameHost(n) == [t |-> "name", name |-> n, nums |-> <<>>]
V4Host(a, b, c, d) == [t |-> "v4", name |-> <<>>, nums |-> <<a, b, c, d>>]
V6Host(first, last) ==
  [t |-> "v6", name |-> <<>>, nums |-> <<first, 0, 0, 0, 0, 0, 0, last>>]

AbsUrl(s, h, p) == [kind |-> "abs", scheme |-> s, host |-> h, path |-> p]
RelUrl(p) == [kind |-> "rel", scheme |-> <<>>, host |-> NoHost, path |-> p]
BadUrl == [kind |-> "bad", scheme |-> <<>>, host |-> NoHost, path |-> ""]
NoUrl == [kind |-> "none", scheme |-> <<>>, host |-> NoHost, path |-> ""]
NullUrl == [kind |-> "null", scheme |-> <<>>, host |-> NoHost, path |-> ""]

\* the schemes whose URLs have a host (WHATWG "special" schemes, less file)
HostSchemes == {T_http, T_https, T_ftp}

\* IPv4 serializer: four decimal numbers joined by "."
SerializeV4(o) ==
  Dec(o[1]) \o <<".">> \o Dec(o[2]) \o <<".">> \o Dec(o[3]) \o <<".">> \o Dec(o[4])

RECURSIVE ZeroRun(_, _)
\* length of the run of zero pieces of h that starts at index i
ZeroRun(h, i) == IF i > Len(h) \/ h[i] # 0 THEN 0 ELSE 1 + ZeroRun(h, i + 1)

\* the piece at which the serializer compresses: the first longest run of
\* two or more zero pieces (0 when there is none)
CompressAt(h) ==
  LET best == CHOOSE i \in 1..Len(h) :
                \A j \in 1..Len(h) :
                  \/ ZeroRun(h, j) < ZeroRun(h, i)
                  \/ (ZeroRun(h, j) = ZeroRun(h, i) /\ i <= j)
  IN IF ZeroRun(h, best) >= 2 THEN best ELSE 0

RECURSIVE V6Pieces(_, _, _)
\* IPv6 serializer, from piece i on; skip counts the zero pieces still to drop
V6Pieces(h, i, skip) ==
  IF i > Len(h) THEN <<>>
  ELSE IF skip > 0 THEN V6Pieces(h, i + 1, skip - 1)
  ELSE IF CompressAt(h) = i
       THEN (IF i = 1 THEN <<":", ":">> ELSE <<":">>)
            \o V6Pieces(h, i + 1, ZeroRun(h, i) - 1)
  ELSE Hex(h[i]) \o (IF i < Len(h) THEN <<":">> ELSE <<>>)
       \o V6Pieces(h, i + 1, 0)

SerializeV6(h) == V6Pieces(h, 1, 0)

\* URL.hostname: a domain is lower-cased, an IPv4 address is written in
\* dotted decimal, an IPv6 address is written compressed inside brackets
Hostname(h) ==
  CASE h.t = "name" -> ToLower(h.name)
    [] h.t = "v4" -> SerializeV4(h.nums)
    [] h.t = "v6" -> <<"[">> \o SerializeV6(h.nums) \o <<"]">>
    [] OTHER -> <<>>

\* new URL(s): throws unless s has a scheme, and, for a scheme with a host,
\* a host
ParseUrl(s) ==
  IF s.kind = "abs" /\ ~(ToLower(s.scheme) \in HostSchemes /\ s.host.t = "none")
  THEN [ok |-> TRUE, protocol |-> ToLower(s.scheme) \o <<":">>,
        hostname |-> Hostname(s.host), pathname |-> s.path]
  ELSE [ok |-> FALSE, protocol |-> <<>>, hostname |-> <<>>, pathname |-> ""]

\* URL.prototype.toString of a parsed URL: the normalized text
Serialize(s) == AbsUrl(ToLower(s.scheme),
                       IF s.host.t = "name" THEN NameHost(ToLower(s.host.name))
                       ELSE s.host,
                       s.path)

\* resolveUrl(base, href): new URL(href, base).toString(), or null when the
\* constructor throws
resolveUrl(base, href) ==
  CASE ParseUrl(href).ok -> Serialize(href)
    [] href.kind = "rel" /\ ParseUrl(base).ok ->
         AbsUrl(ToLower(base.scheme), Serialize(base).host, href.path)
    [] href.kind = "none" /\ ParseUrl(base).ok -> Serialize(base)
    [] OTHER -> NullUrl

(***************************************************************************)
(* Destination guard                                                       *)
(***************************************************************************)
\* /^172\.(1[6-9]|2[0-9]|3[0-1])\./
PatternClassB(h) ==
  /\ StartsWith(h, <<"1", "7", "2", ".">>)
  /\ Len(h) >= 7
  /\ \/ h[5] = "1" /\ h[6] \in {"6", "7", "8", "9"}
     \/ h[5] = "2" /\ h[6] \in {DigitChars[i] : i \in 1..10}
     \/ h[5] = "3" /\ h[6] \in {"0", "1"}
  /\ h[7] = "."

\* the same list with the class B pattern written /^172\./
PrivatePatterns_WideClassB(h) ==
  \/ StartsWith(h, <<"1", "2", "7", ".">>)
  \/ StartsWith(h, <<"1", "0", ".">>)
  \/ StartsWith(h, <<"1", "7", "2", ".">>)
  \/ StartsWith(h, <<"1", "9", "2", ".", "1", "6", "8", ".">>)
  \/ StartsWith(h, <<"1", "6", "9", ".", "2", "5", "4", ".">>)
  \/ h = <<":", ":", "1">>
  \/ StartsWith(h, <<"f", "c", "0", "0", ":">>)
  \/ StartsWith(h, <<"f", "e", "8", "0", ":">>)

\* privatePatterns: some pattern of the list matches the hostname
PrivatePatterns(h) ==
  \/ StartsWith(h, <<"1", "2", "7", ".">>)
  \/ StartsWith(h, <<"1", "0", ".">>)
  \/ PatternClassB(h)
  \/ StartsWith(h, <<"1", "9", "2", ".", "1", "6", "8", ".">>)
  \/ StartsWith(h, <<"1", "6", "9", ".", "2", "5", "4", ".">>)
  \/ h = <<":", ":", "1">>
  \/ StartsWith(h, <<"f", "c", "0", "0", ":">>)
  \/ StartsWith(h, <<"f", "e", "8", "0", ":">>)

blockedHosts ==
  { T_localhost,
    <<"0", ".", "0", ".", "0", ".", "0">>,
    T_metadata,
    <<"1", "6", "9", ".", "2", "5", "4", ".", "1", "6", "9", ".", "2", "5", "4">> }

\* the guard without its protocol test
isBlockedUrl_AnyScheme(url) ==
  IF url.kind \in {"none", "null"} THEN TRUE
  ELSE IF ~ParseUrl(url).ok THEN TRUE
  ELSE LET hostname == ToLower(ParseUrl(url).hostname)
       IN hostname \in blockedHosts \/ PrivatePatterns(hostname)

isBlockedUrl(url) ==
  LET urlObj == ParseUrl(url)
  IN IF url.kind \in {"none", "null"} THEN TRUE
     ELSE IF ~urlObj.ok THEN TRUE
     ELSE IF urlObj.protocol \notin {T_http \o <<":">>, T_https \o <<":">>}
     THEN TRUE
     ELSE LET hostname == ToLower(urlObj.hostname)
          IN hostname \in blockedHosts \/ PrivatePatterns(hostname)

(***************************************************************************)
(* State                                                                   *)
(***************************************************************************)
Clients == {1, 2}

\* a client request before it arrives
IdleReq == [phase |-> "idle", entry |-> "", method |-> "", raw |-> NoUrl,
            query |-> <<>>, form |-> <<>>,
            chdrs |-> {}, handler |-> "", status |-> 0, body |-> "",
            len |-> 0, relayed |-> {}]

\* a fetch chain before nativeFetch is called
\* no document is being rewritten
NoPage == [baseUrl |-> <<>>, orig |-> <<>>, doc |-> <<>>, done |-> {}]

IdleChain == [st |-> "none", url |-> NoUrl, method |-> "", budget |-> 0,
              hop |-> 0, timer |-> FALSE, wrote |-> FALSE, via |-> 0,
              chunks |-> 0,
              sent |-> 0, stale |-> FALSE, outcome |-> "pending", err |-> "",
              status |-> 0, hdrs |-> {}, location |-> NoUrl, headers |-> {}]

(***************************************************************************)
(* The guard alone: isBlockedUrl applied to a URL text                     *)
(***************************************************************************)
SchemesWritten ==
  { T_http, <<"H","T","T","P">>, T_https, <<"H","t","t","p","S">>,
    T_ftp, T_file, T_javascript }

NamesWritten ==
  { T_localhost, <<"L","O","C","A","L","H","O","S","T">>,
    <<"L","o","c","a","l","H","o","s","t">>, T_example, T_metadata,
    <<"M","e","t","a","d","a","t","a",".","G","o","o","g","l","e",".",
      "I","n","t","e","r","n","a","l">>, T_ddg }

OctetsA == {0, 1, 9, 10, 11, 12, 17, 19, 100, 101, 126, 127, 128, 169, 170,
            171, 172, 173, 191, 192, 193, 255}
OctetsB == 0..255
OctetsC == {0, 169}
OctetsD == {0, 254}

\* fc00, fd00, fdff, fe00, fe80, febf, fec0, 2001 and 0
PiecesFirst == {0, 64512, 64768, 65023, 65024, 65152, 65215, 65216, 8193}
PiecesLast == {0, 1, 2}

HostsWritten ==
  {NameHost(n) : n \in NamesWritten}
  \cup {V4Host(a, b, c, d) : a \in OctetsA, b \in OctetsB, c \in OctetsC, d \in OctetsD}
  \cup {V6Host(f, l) : f \in PiecesFirst, l \in PiecesLast}
  \cup {NoHost}

GuardInputs ==
  {AbsUrl(s, h, "/") : s \in SchemesWritten, h \in HostsWritten}
  \cup {NoUrl, BadUrl, NullUrl, RelUrl("/confirm")}

GuardInit ==
  /\ gUrl \in GuardInputs
  /\ gOut = "unset"
  /\ active = {}
  /\ req = [c \in Clients |-> IdleReq]
  /\ chain = [c \in Clients |-> IdleChain]
  /\ page = NoPage

GuardClassify ==
  /\ gOut = "unset"
  /\ gOut' = IF isBlockedUrl(gUrl) THEN "blocked" ELSE "allowed"
  /\ UNCHANGED <<gUrl, active, req, chain, page>>

GuardNext == GuardClassify

GuardSpec == GuardInit /\ [][GuardNext]_vars

(***************************************************************************)
(* Guarded fetcher                                                         *)
(***************************************************************************)
MAX_REDIRECTS == 5

TIMEOUT_MS == 15000

\* the most 'data' events one response body is followed through
MaxChunks == 1

HttpProtocols == {T_http \o <<":">>, T_https \o <<":">>}

\* reject(e) replacing an outcome the promise already has
Reject_Overwrite(ch, k, e) ==
  IF k = ch.hop
  THEN [ch EXCEPT !.outcome = "rejected", !.err = e]
  ELSE ch

\* reject(e) called for the promise of hop k: a promise settles once, and the
\* promise of an earlier hop was already resolved with the next hop's promise
Reject(ch, k, e) ==
  IF k = ch.hop /\ ch.outcome = "pending"
  THEN [ch EXCEPT !.outcome = "rejected", !.err = e]
  ELSE ch

\* resolve({statusCode, headers, body}) called for the promise of hop k
Resolve(ch, k) ==
  IF k = ch.hop /\ ch.outcome = "pending"
  THEN [ch EXCEPT !.outcome = "fulfilled"]
  ELSE ch

\* the executor with the budget test written maxRedirects <= 0
nativeFetch_OffByOne(ch, k, urlString, options, maxRedirects) ==
  LET p == [ch EXCEPT !.hop = k, !.budget = maxRedirects]
      method == IF options.method = "" THEN "GET" ELSE options.method
  IN IF maxRedirects <= 0 THEN Reject(p, k, "Too many redirects")
     ELSE IF ~ParseUrl(urlString).ok THEN Reject(p, k, "Invalid URL")
     ELSE IF ParseUrl(urlString).protocol \notin HttpProtocols
     THEN Reject(p, k, "ERR_INVALID_PROTOCOL")
     ELSE [p EXCEPT !.st = "sent", !.url = urlString, !.method = method,
                    !.timer = (options.timeoutMs > 0),
                    !.wrote = (options.body /\ method \notin {"GET", "HEAD"}),
                    !.hdrs = options.headers,
                    !.chunks = 0, !.sent = @ + 1]

\* the executor of nativeFetch(urlString, options, maxRedirects), run for the
\* promise of hop k: it rejects at once or issues one request
nativeFetch(ch, k, urlString, options, maxRedirects) ==
  LET p == [ch EXCEPT !.hop = k, !.budget = maxRedirects]
      method == IF options.method = "" THEN "GET" ELSE options.method
  IN IF maxRedirects < 0 THEN Reject(p, k, "Too many redirects")
     ELSE IF ~ParseUrl(urlString).ok THEN Reject(p, k, "Invalid URL")
     ELSE IF ParseUrl(urlString).protocol \notin HttpProtocols
          \* lib.request throws inside the executor
     THEN Reject(p, k, "ERR_INVALID_PROTOCOL")
     ELSE [p EXCEPT !.st = "sent", !.url = urlString, !.method = method,
                    !.timer = (options.timeoutMs > 0),
                    !.wrote = (options.body /\ method \notin {"GET", "HEAD"}),
                    !.hdrs = options.headers,
                    !.chunks = 0, !.sent = @ + 1]

\* res.headers: the names of the response's headers
ResponseHeaders(location, others) ==
  others \cup (IF location.kind # "none" THEN {"location"} ELSE {})

\* the redirect branch with the method carried over whatever the status
onResponse_KeepMethod(ch, statusCode, location, others) ==
  IF statusCode >= 300 /\ statusCode < 400 /\ location.kind # "none"
  THEN nativeFetch([ch EXCEPT !.st = "drained", !.via = statusCode,
                             !.location = location, !.stale = @ \/ ch.timer],
                   ch.hop + 1, resolveUrl(ch.url, location),
                   [method |-> ch.method, headers |-> ch.hdrs,
                    timeoutMs |-> 0, body |-> FALSE],
                   ch.budget - 1)
  ELSE [ch EXCEPT !.st = "body", !.status = statusCode,
                  !.headers = ResponseHeaders(location, others)]

\* the redirect branch taken for any response with a Location header
onResponse_FollowAnyLocation(ch, statusCode, location, others) ==
  IF location.kind # "none"
  THEN nativeFetch([ch EXCEPT !.st = "drained", !.via = statusCode,
                             !.location = location, !.stale = @ \/ ch.timer],
                   ch.hop + 1, resolveUrl(ch.url, location),
                   [method |-> IF statusCode = 303 THEN "GET" ELSE ch.method,
                    headers |-> ch.hdrs, timeoutMs |-> 0, body |-> FALSE],
                   ch.budget - 1)
  ELSE [ch EXCEPT !.st = "body", !.status = statusCode,
                  !.headers = ResponseHeaders(location, others)]

\* the redirect branch sending the previous hop's body again
onResponse_KeepBody(ch, statusCode, location, others) ==
  IF statusCode >= 300 /\ statusCode < 400 /\ location.kind # "none"
  THEN nativeFetch([ch EXCEPT !.st = "drained", !.via = statusCode,
                             !.location = location, !.stale = @ \/ ch.timer],
                   ch.hop + 1, resolveUrl(ch.url, location),
                   [method |-> IF statusCode = 303 THEN "GET" ELSE ch.method,
                    headers |-> ch.hdrs, timeoutMs |-> 0, body |-> ch.wrote],
                   ch.budget - 1)
  ELSE [ch EXCEPT !.st = "body", !.status = statusCode,
                  !.headers = ResponseHeaders(location, others)]

\* the redirect branch followed without spending the budget
onResponse_NoDecrement(ch, statusCode, location, others) ==
  IF statusCode >= 300 /\ statusCode < 400 /\ location.kind # "none"
  THEN nativeFetch([ch EXCEPT !.st = "drained", !.via = statusCode,
                             !.location = location, !.stale = @ \/ ch.timer],
                   ch.hop + 1, resolveUrl(ch.url, location),
                   [method |-> IF statusCode = 303 THEN "GET" ELSE ch.method,
                    headers |-> ch.hdrs, timeoutMs |-> 0, body |-> FALSE],
                   ch.budget)
  ELSE [ch EXCEPT !.st = "body", !.status = statusCode,
                  !.headers = ResponseHeaders(location, others)]

\* the redirect branch passing the Location header on as it was received
onResponse_NoResolve(ch, statusCode, location, others) ==
  IF statusCode >= 300 /\ statusCode < 400 /\ location.kind # "none"
  THEN nativeFetch([ch EXCEPT !.st = "drained", !.via = statusCode,
                             !.location = location, !.stale = @ \/ ch.timer],
                   ch.hop + 1, location,
                   [method |-> IF statusCode = 303 THEN "GET" ELSE ch.method,
                    headers |-> ch.hdrs, timeoutMs |-> 0, body |-> FALSE],
                   ch.budget - 1)
  ELSE [ch EXCEPT !.st = "body", !.status = statusCode,
                  !.headers = ResponseHeaders(location, others)]

\* the response callback of the current hop: a redirect status with a Location
\* drains the response (res.resume()) and resolves the promise with
\* nativeFetch(nextUrl, {method, headers}, maxRedirects - 1); any other
\* response is read to its end
onResponse(ch, statusCode, location, others) ==
  IF statusCode >= 300 /\ statusCode < 400 /\ location.kind # "none"
  THEN nativeFetch([ch EXCEPT !.st = "drained", !.via = statusCode,
                             !.location = location, !.stale = @ \/ ch.timer],
                   ch.hop + 1, resolveUrl(ch.url, location),
                   [method |-> IF statusCode = 303 THEN "GET" ELSE ch.method,
                    headers |-> ch.hdrs, timeoutMs |-> 0, body |-> FALSE],
                   ch.budget - 1)
  ELSE [ch EXCEPT !.st = "body", !.status = statusCode,
                  !.headers = ResponseHeaders(location, others)]

\* res.on('end'): resolve with the buffered response
onEnd(ch) == Resolve([ch EXCEPT !.st = "ended", !.stale = @ \/ ch.timer], ch.hop)

\* an error handler that issues the request once more before giving up
onError_Retry(ch) ==
  IF ch.sent < MAX_REDIRECTS
  THEN [ch EXCEPT !.st = "sent", !.sent = @ + 1]
  ELSE Reject([ch EXCEPT !.st = "failed"], ch.hop, "ECONNRESET")

\* req.on('error')
onError(ch) == Reject([ch EXCEPT !.st = "failed"], ch.hop, "ECONNRESET")

\* the timeout callback of the current hop: req.destroy(), then reject
onTimeout(ch) == Reject([ch EXCEPT !.st = "aborted"], ch.hop, "Request timed out")

\* the timeout callback of the first hop firing after its redirect was
\* followed or its body ended: nothing in the source disarms the timer
onStaleTimeout(ch) == Reject([ch EXCEPT !.stale = FALSE], 0, "Request timed out")

(***************************************************************************)
(* Handlers.  A handler runs to its first await; the code after the await  *)
(* runs when the chain settles, before any other event is delivered.       *)
(***************************************************************************)
\* res.status(status).send(body)
Send(r, status, body, len) ==
  [r EXCEPT !.phase = "done", !.status = status, !.body = body, !.len = len]

\* res.set(name, value) for each of the names
Relay(r, names) == [r EXCEPT !.relayed = names]

\* the `allowed` list of proxyFetch
AllowedHeaders ==
  {"cache-control", "content-length", "content-type", "last-modified", "etag"}

\* the catch blocks sending err.message to the client
afterAwait_LeakError(r, ch) ==
  IF r.phase # "pending" \/ ch.outcome = "pending" THEN r
  ELSE IF ch.outcome = "fulfilled"
  THEN Send(r, IF ch.status = 0 THEN 200 ELSE ch.status, "upstream body",
            ch.chunks)
  ELSE Send(r, 500, ch.err, 0)

\* proxyFetch copying every upstream header to the client
afterAwait_RelayAll(r, ch) ==
  IF r.phase # "pending" \/ ch.outcome = "pending" THEN r
  ELSE IF ch.outcome = "fulfilled"
  THEN Send(Relay(r, ch.headers), IF ch.status = 0 THEN 200 ELSE ch.status,
            "upstream body", ch.chunks)
  ELSE Send(r, 500, "Error fetching remote resource", 0)

\* the code after `await nativeFetch(...)` of each handler, and its catch
afterAwait(r, ch) ==
  IF r.phase # "pending" \/ ch.outcome = "pending" THEN r
  ELSE CASE r.handler = "proxyFetch" ->
              IF ch.outcome = "fulfilled"
              THEN Send(Relay(r, (ch.headers \cap {"content-type"})
                                 \cup (ch.headers \cap AllowedHeaders)),
                        IF ch.status = 0 THEN 200 ELSE ch.status,
                        "upstream body", ch.chunks)
              ELSE Send(r, 500, "Error fetching remote resource", 0)
         [] r.handler = "post" ->
              IF ch.outcome = "fulfilled"
              THEN Send(Relay(r, ch.headers \cap {"content-type"}),
                        IF ch.status = 0 THEN 200 ELSE ch.status,
                        "upstream body", ch.chunks)
              ELSE Send(r, 500, "Error proxying POST", 0)
         [] OTHER ->
              IF ch.outcome = "fulfilled"
              THEN Send(r, 200, "rewritten page", ch.chunks)
              ELSE Send(r, 500, "Error fetching search results", 0)

\* a handler's state and its chain after the handler ran to its first await
Await(r, handler, ch) ==
  LET p == [r EXCEPT !.phase = "pending", !.handler = handler]
  IN [r |-> afterAwait(p, ch), ch |-> ch]

Answer(r, status, body) == [r |-> Send(r, status, body, 0), ch |-> IdleChain]

\* proxyFetch forwarding every header of the client request
proxyFetch_ForwardAll(r, rawUrl) ==
  IF rawUrl.kind = "none" THEN Answer(r, 400, "Missing url")
  ELSE IF isBlockedUrl(rawUrl) THEN Answer(r, 400, "Blocked URL")
  ELSE Await(r, "proxyFetch",
             nativeFetch(IdleChain, 0, rawUrl,
                         [method |-> "GET", headers |-> r.chdrs,
                          timeoutMs |-> TIMEOUT_MS, body |-> FALSE],
                         MAX_REDIRECTS))

\* proxyFetch(rawUrl, req, res)
proxyFetch(r, rawUrl) ==
  IF rawUrl.kind = "none" THEN Answer(r, 400, "Missing url")
  ELSE IF isBlockedUrl(rawUrl) THEN Answer(r, 400, "Blocked URL")
  ELSE Await(r, "proxyFetch",
             nativeFetch(IdleChain, 0, rawUrl,
                         [method |-> "GET",
                          headers |-> r.chdrs \cap {"user-agent", "accept"},
                          timeoutMs |-> TIMEOUT_MS, body |-> FALSE],
                         MAX_REDIRECTS))

\* the POST branch of app.all('/fetch')
postFetch(r, raw, hasBody) ==
  Await(r, "post",
        nativeFetch(IdleChain, 0, raw,
                    [method |-> "POST", headers |-> {"content-type"},
                     timeoutMs |-> TIMEOUT_MS, body |-> hasBody],
                    MAX_REDIRECTS))

\* the route without its own guard test
fetchRoute_NoGuard(r, raw, hasBody) ==
  IF raw.kind = "none" THEN Answer(r, 400, "Missing url")
  ELSE IF r.method = "GET" THEN proxyFetch(r, raw)
  ELSE IF r.method = "POST" THEN postFetch(r, raw, hasBody)
  ELSE proxyFetch(r, raw)

\* app.all('/fetch', ...)
fetchRoute(r, raw, hasBody) ==
  IF raw.kind = "none" THEN Answer(r, 400, "Missing url")
  ELSE IF isBlockedUrl(raw) THEN Answer(r, 400, "Blocked URL")
  ELSE IF r.method = "GET" THEN proxyFetch(r, raw)
  ELSE IF r.method = "POST" THEN postFetch(r, raw, hasBody)
  ELSE proxyFetch(r, raw)

\* `https://lite.duckduckgo.com/lite/?${params}`
ddgUrl == AbsUrl(T_https, NameHost(T_ddg), "/lite/")

\* app.all('/search', ...)
searchRoute(r, hasQ) ==
  IF ~hasQ THEN Answer(r, 302, "/")
  ELSE Await(r, "search",
             nativeFetch(IdleChain, 0, ddgUrl,
                         [method |-> r.method, headers |-> {"user-agent"},
                          timeoutMs |-> TIMEOUT_MS,
                          body |-> (r.method = "POST")],
                         MAX_REDIRECTS))

(***************************************************************************)
(* The proxy serving requests against an arbitrary upstream                *)
(***************************************************************************)
Methods == {"GET", "POST", "PUT"}

PublicUrl == AbsUrl(T_http, NameHost(T_example), "/")
LoopbackUrl == AbsUrl(T_http, V4Host(127, 0, 0, 1), "/")
FileUrl == AbsUrl(T_file, NoHost, "/etc/passwd")

\* the url parameter of a /fetch request
FetchInputs ==
  { NoUrl, BadUrl, RelUrl("/confirm"), PublicUrl, LoopbackUrl, FileUrl,
    AbsUrl(<<"H","T","T","P","S">>, NameHost(<<"E","x","a","m","p","l","e",".","c","o","m">>), "/"),
    AbsUrl(T_http, V4Host(169, 254, 169, 254), "/") }

\* the status codes upstream answers with
Statuses == {200, 300, 303, 399, 400}

\* the other headers of an upstream response
HeaderSets ==
  { {"content-type", "content-length", "set-cookie", "transfer-encoding"},
    {"etag", "cache-control", "last-modified", "x-powered-by"} }

\* the headers of a client request
ClientHeaderSets ==
  { {"user-agent", "accept", "cookie", "authorization"}, {"cookie"} }

\* the Location header of an upstream response (NoUrl: none)
Locations ==
  { NoUrl, BadUrl, RelUrl("/confirm"), LoopbackUrl, FileUrl,
    AbsUrl(T_http, NameHost(T_example), "/next") }

Init ==
  /\ gUrl = NoUrl
  /\ gOut = "unset"
  /\ active = {1}
  /\ req = [c \in Clients |-> IdleReq]
  /\ chain = [c \in Clients |-> IdleChain]
  /\ page = NoPage

\* the chain kept in one module-level variable all handlers share
Deliver_SharedChain(c, ch) ==
  /\ chain' = [d \in Clients |-> IF chain[d].st = "none" THEN chain[d] ELSE ch]
  /\ req' = [req EXCEPT ![c] = afterAwait(req[c], ch)]
  /\ UNCHANGED <<gUrl, gOut, active, page>>

\* the event's effect on the chain, then the handler's code after its await
Deliver(c, ch) ==
  /\ chain' = [chain EXCEPT ![c] = ch]
  /\ req' = [req EXCEPT ![c] = afterAwait(req[c], ch)]
  /\ UNCHANGED <<gUrl, gOut, active, page>>

Route(c, out) ==
  /\ req' = [req EXCEPT ![c] = out.r]
  /\ chain' = [chain EXCEPT ![c] = out.ch]
  /\ UNCHANGED <<gUrl, gOut, active, page>>

FetchRequest(c) ==
  /\ c \in active
  /\ req[c].phase = "idle"
  /\ \E m \in Methods, raw \in FetchInputs, hasBody \in BOOLEAN,
        hs \in ClientHeaderSets :
       /\ hasBody => m = "POST"
       \* the POST branch reads no request header
       /\ m = "POST" => hs = {"cookie"}
       /\ Route(c, fetchRoute([req[c] EXCEPT !.entry = "fetch", !.method = m,
                                             !.raw = raw, !.chdrs = hs],
                              raw, hasBody))

SearchRequest(c) ==
  /\ c \in active
  /\ req[c].phase = "idle"
  /\ \E m \in Methods, hasQ \in BOOLEAN, hs \in ClientHeaderSets :
       \* the handler sends a user-agent header whatever the client sent
       /\ hs = {"cookie"}
       /\ Route(c, searchRoute([req[c] EXCEPT !.entry = "search", !.method = m,
                                            !.chdrs = hs],
                            hasQ))

UpstreamResponse(c) ==
  /\ chain[c].st = "sent"
  /\ \E statusCode \in Statuses, location \in Locations,
        others \in HeaderSets :
       Deliver(c, onResponse(chain[c], statusCode, location, others))

UpstreamData(c) ==
  /\ chain[c].st = "body"
  /\ chain[c].chunks < MaxChunks
  /\ Deliver(c, [chain[c] EXCEPT !.chunks = @ + 1])

UpstreamEnd(c) ==
  /\ chain[c].st = "body"
  /\ Deliver(c, onEnd(chain[c]))

SocketError(c) ==
  /\ chain[c].st \in {"sent", "body", "aborted"}
  /\ Deliver(c, onError(chain[c]))

Timeout(c) ==
  /\ chain[c].st \in {"sent", "body"}
  /\ chain[c].timer
  /\ Deliver(c, onTimeout(chain[c]))

StaleTimeout(c) ==
  /\ chain[c].stale
  /\ Deliver(c, onStaleTimeout(chain[c]))

Next ==
  \E c \in Clients :
    \/ FetchRequest(c)
    \/ SearchRequest(c)
    \/ UpstreamResponse(c)
    \/ UpstreamData(c)
    \/ UpstreamEnd(c)
    \/ SocketError(c)
    \/ Timeout(c)
    \/ StaleTimeout(c)

Spec == Init /\ [][Next]_vars

\* the runtime delivers a timer that is armed; upstream owes no event
FairSpec ==
  Spec /\ \A c \in Clients : WF_vars(Timeout(c)) /\ WF_vars(StaleTimeout(c))

(***************************************************************************)
(* Two client requests handled at once, their events interleaved           *)
(***************************************************************************)
\* what the two clients ask for and what upstream answers them
ConcMethods == {"GET", "POST"}
ConcSearchMethods == {"POST"}
ConcUrls == {PublicUrl, LoopbackUrl}
ConcStatuses == {200, 303}
ConcLocations == {RelUrl("/confirm")}
ConcHeaders == {"content-type", "set-cookie"}
ConcClientHeaders == {"user-agent", "cookie"}

\* the handler's state and chain after each request that may arrive
ConcArrivals(r) ==
  { fetchRoute([r EXCEPT !.entry = "fetch", !.method = m, !.raw = raw,
                         !.chdrs = ConcClientHeaders],
               raw, FALSE) : m \in ConcMethods, raw \in ConcUrls }
  \cup
  { searchRoute([r EXCEPT !.entry = "search", !.method = m,
                          !.chdrs = ConcClientHeaders], TRUE) :
      m \in ConcSearchMethods }

\* the chain after each response upstream may give to the current hop
ConcResponses(ch) ==
  { onResponse(ch, statusCode, location, ConcHeaders) :
      statusCode \in ConcStatuses, location \in ConcLocations }

ConcInit ==
  /\ gUrl = NoUrl
  /\ gOut = "unset"
  /\ active = Clients
  /\ req = [c \in Clients |-> IdleReq]
  /\ chain = [c \in Clients |-> IdleChain]
  /\ page = NoPage

ConcRequest(c) ==
  /\ c \in active
  /\ req[c].phase = "idle"
  /\ \E out \in ConcArrivals(req[c]) : Route(c, out)

ConcResponse(c) ==
  /\ chain[c].st = "sent"
  /\ \E ch \in ConcResponses(chain[c]) : Deliver(c, ch)

ConcNext ==
  \E c \in Clients :
    \/ ConcRequest(c)
    \/ ConcResponse(c)
    \/ UpstreamData(c)
    \/ UpstreamEnd(c)
    \/ SocketError(c)
    \/ Timeout(c)
    \/ StaleTimeout(c)

ConcSpec == ConcInit /\ [][ConcNext]_vars

(***************************************************************************)
(* The link rewriter of /search.  Attribute values and URLs are texts here: *)
(* `new URL(href, base).toString()` is computed on the characters, for      *)
(* references without userinfo, port, dot segments, backslashes, white      *)
(* space or characters the serializer would percent-encode.                 *)
(***************************************************************************)
\* the value null of resolveUrl; no URL serializes to the empty text
Null == <<>>

T_fetchPrefix == <<"/","f","e","t","c","h","?","u","r","l","=">>
T_searchPath == <<"/","s","e","a","r","c","h">>
T_duckduckgo == <<"d","u","c","k","d","u","c","k","g","o",".","c","o","m">>
T_lite == <<"/","l","i","t","e","/">>
T_javascriptColon == <<"j","a","v","a","s","c","r","i","p","t",":">>
T_mailtoColon == <<"m","a","i","l","t","o",":">>
T_GET == <<"G","E","T">>
T_self == <<"_","s","e","l","f">>

Take(t, n) == SubSeq(t, 1, n)
Drop(t, n) == SubSeq(t, n + 1, Len(t))

RECURSIVE ScanFor(_, _, _)
\* the first position from i on whose character is in cs, Len(t) + 1 if none
ScanFor(t, cs, i) ==
  IF i > Len(t) THEN Len(t) + 1
  ELSE IF t[i] \in cs THEN i
  ELSE ScanFor(t, cs, i + 1)

\* the position of the first character of t that is in cs, Len(t) + 1 if none
IndexOfAny(t, cs) == ScanFor(t, cs, 1)

RECURSIVE ScanBack(_, _)
\* the last position up to i that holds "/", 0 if none
ScanBack(t, i) ==
  IF i = 0 THEN 0
  ELSE IF t[i] = "/" THEN i
  ELSE ScanBack(t, i - 1)

\* the position of the last "/" of t, 0 if none
LastSlash(t) == ScanBack(t, Len(t))

\* String.prototype.includes
Includes(t, sub) ==
  \E i \in 1..(Len(t) - Len(sub) + 1) : SubSeq(t, i, i + Len(sub) - 1) = sub

\* the upper-case letter of each lower-case letter
UpperOf ==
  [l \in {LowerChars[i] : i \in 1..26} |->
     UpperChars[CHOOSE i \in 1..26 : LowerChars[i] = l]]

\* String.prototype.toUpperCase
ToUpper(s) == [i \in 1..Len(s) |-> IF s[i] \in DOMAIN UpperOf THEN UpperOf[s[i]] ELSE s[i]]

Letters == {UpperChars[i] : i \in 1..26} \cup {LowerChars[i] : i \in 1..26}
Digits == {DigitChars[i] : i \in 1..10}

\* the length of the scheme of t with its colon, 0 if t starts with no scheme
SchemeEnd(t) ==
  LET i == IndexOfAny(t, {":"})
  IN IF /\ i > 1 /\ i <= Len(t)
        /\ t[1] \in Letters
        /\ \A j \in 2..(i - 1) : t[j] \in Letters \cup Digits \cup {"+", "-", "."}
     THEN i ELSE 0

\* the special schemes of the URL standard that name a host
SpecialSchemes == { <<"h","t","t","p",":">>, <<"h","t","t","p","s",":">>, <<"f","t","p",":">>, <<"w","s",":">>, <<"w","s","s",":">> }

\* characters a host may not contain
ForbiddenHost == {" ", "#", "%", "/", ":", "<", ">", "?", "@", "[", "\\", "]", "^", "|"}

\* the slashes after a special scheme are skipped however many there are
RECURSIVE StripSlashes(_)
StripSlashes(t) ==
  IF t # <<>> /\ t[1] = "/" THEN StripSlashes(Tail(t)) ELSE t

\* scheme://host/path?query from the text after the slashes; an empty or
\* forbidden host is a failure
ParseAuthority(scheme, t) ==
  LET e == IndexOfAny(t, {"/", "?", "#"})
      host == ToLower(Take(t, e - 1))
      tail == Drop(t, e - 1)
  IN IF host = <<>> \/ \E i \in 1..Len(host) : host[i] \in ForbiddenHost
     THEN Null
     ELSE scheme \o <<"/","/">> \o host
          \o (IF tail = <<>> \/ tail[1] # "/" THEN <<"/">> ELSE <<>>) \o tail

\* new URL(t).toString(), Null where it throws
ParseAbsolute(t) ==
  LET e == SchemeEnd(t)
      scheme == ToLower(Take(t, e))
  IN IF e = 0 THEN Null
     ELSE IF scheme \in SpecialSchemes
     THEN ParseAuthority(scheme, StripSlashes(Drop(t, e)))
     ELSE scheme \o Drop(t, e)

\* the parts of a serialized URL with a special scheme
BaseScheme(b) == Take(b, SchemeEnd(b))
BaseOrigin(b) ==
  LET a == SchemeEnd(b) + 2
  IN Take(b, a + IndexOfAny(Drop(b, a), {"/", "?", "#"}) - 1)
BasePath(b) ==
  LET t == Drop(b, Len(BaseOrigin(b)))
  IN Take(t, IndexOfAny(t, {"?", "#"}) - 1)
BaseQuery(b) ==
  LET t == Drop(b, Len(BaseOrigin(b)) + Len(BasePath(b)))
  IN Take(t, IndexOfAny(t, {"#"}) - 1)

\* a reference without scheme against the serialized base b
Relative(b, ref) ==
  IF StartsWith(ref, <<"/","/">>) THEN ParseAuthority(BaseScheme(b), StripSlashes(ref))
  ELSE IF ref = <<>> THEN BaseOrigin(b) \o BasePath(b) \o BaseQuery(b)
  ELSE IF ref[1] = "/" THEN BaseOrigin(b) \o ref
  ELSE IF ref[1] = "?" THEN BaseOrigin(b) \o BasePath(b) \o ref
  ELSE IF ref[1] = "#" THEN BaseOrigin(b) \o BasePath(b) \o BaseQuery(b) \o ref
  ELSE BaseOrigin(b) \o Take(BasePath(b), LastSlash(BasePath(b))) \o ref

\* resolveUrl(base, href) on texts: new URL(href, base).toString(), or null
resolveHref(base, href) ==
  LET b == ParseAbsolute(base)
      e == SchemeEnd(href)
      scheme == ToLower(Take(href, e))
      rest == Drop(href, e)
  IN IF e > 0 /\ (scheme \notin SpecialSchemes \/ b = Null
                  \/ scheme # BaseScheme(b) \/ StartsWith(rest, <<"/","/">>))
     THEN ParseAbsolute(href)
     ELSE IF b = Null \/ BaseScheme(b) \notin SpecialSchemes THEN Null
     ELSE Relative(b, IF e > 0 THEN rest ELSE href)

\* the characters encodeURIComponent leaves as they are
Unreserved == Letters \cup Digits \cup {"-", "_", ".", "!", "~", "*", "'", "(", ")"}

\* the code of each other character of the texts
CharCode ==
  [c \in {" ", "#", "$", "%", "&", "+", ",", "/", ":", ";", "=", "?", "@"} |->
     CASE c = " " -> 32 [] c = "#" -> 35 [] c = "$" -> 36 [] c = "%" -> 37
       [] c = "&" -> 38 [] c = "+" -> 43 [] c = "," -> 44 [] c = "/" -> 47
       [] c = ":" -> 58 [] c = ";" -> 59 [] c = "=" -> 61 [] c = "?" -> 63
       [] c = "@" -> 64]

UpperHexChars == DigitChars \o <<"A","B","C","D","E","F">>

\* %XX of a character outside the unreserved set
Escape(c) ==
  <<"%", UpperHexChars[(CharCode[c] \div 16) + 1], UpperHexChars[(CharCode[c] % 16) + 1]>>

RECURSIVE encodeURIComponent(_)
encodeURIComponent(t) ==
  IF t = <<>> THEN <<>>
  ELSE (IF t[1] \in Unreserved THEN <<t[1]>> ELSE Escape(t[1]))
       \o encodeURIComponent(Tail(t))

\* the proxy reference with the URL appended as it is
ProxyRef_Raw(resolved) == T_fetchPrefix \o resolved

\* `/fetch?url=${encodeURIComponent(resolved)}`
ProxyRef(resolved) == T_fetchPrefix \o encodeURIComponent(resolved)

\* An element: its tag, its rel attribute, whether it has its reference
\* attribute (href, src or action by tag) and the attribute's value, its
\* target attribute ("" absent) and its method attribute (<<>> absent).
Element(tag, rel, has, val, target, method) ==
  [tag |-> tag, rel |-> rel, has |-> has, val |-> val, target |-> target,
   method |-> method]

\* $(el).attr(name) of the reference attribute: undefined and '' are both falsy
Attr(el) == IF el.has THEN el.val ELSE <<>>

\* the anchor callback without the javascript:/mailto: exemption
anchorEach_NoExemption(baseUrl, el) ==
  LET href == Attr(el)
      resolved == resolveHref(baseUrl, href)
  IN IF href = <<>> THEN el
     ELSE IF resolved = Null THEN el
     ELSE [el EXCEPT !.has = TRUE, !.val = ProxyRef(resolved), !.target = T_self]

\* the callback of $('a').each
anchorEach(baseUrl, el) ==
  LET href == Attr(el)
      resolved == resolveHref(baseUrl, href)
  IN IF href = <<>> THEN el
     ELSE IF resolved = Null THEN el
     ELSE IF StartsWith(resolved, T_javascriptColon)
             \/ StartsWith(resolved, T_mailtoColon) THEN el
     ELSE [el EXCEPT !.has = TRUE, !.val = ProxyRef(resolved), !.target = T_self]

\* the callback the image, stylesheet and script passes each repeat
srcEach(baseUrl, el) ==
  LET src == Attr(el)
      resolved == resolveHref(baseUrl, src)
  IN IF src = <<>> THEN el
     ELSE IF resolved = Null THEN el
     ELSE [el EXCEPT !.has = TRUE, !.val = ProxyRef(resolved)]

\* the callback of $('form').each
formEach(baseUrl, el) ==
  LET action == Attr(el)
      method == ToUpper(IF el.method = <<>> THEN T_GET ELSE el.method)
      resolved == resolveHref(baseUrl, action)
  IN IF Includes(action, T_duckduckgo) \/ Includes(action, T_lite)
     THEN [el EXCEPT !.has = TRUE, !.val = T_searchPath, !.method = T_GET]
     ELSE IF action # <<>>
     THEN IF resolved = Null THEN el
          ELSE [el EXCEPT !.val = ProxyRef(resolved), !.method = method]
     ELSE el

\* the five passes over the document, each on the elements its selector
\* matches
anchorsPass(baseUrl, d) ==
  [i \in DOMAIN d |-> IF d[i].tag = "a" THEN anchorEach(baseUrl, d[i]) ELSE d[i]]

imagesPass(baseUrl, d) ==
  [i \in DOMAIN d |-> IF d[i].tag = "img" THEN srcEach(baseUrl, d[i]) ELSE d[i]]

\* the stylesheet pass with the selector '[href]'
stylesheetsPass_AnyHref(baseUrl, d) ==
  [i \in DOMAIN d |-> IF d[i].tag \in {"a", "link"}
                      THEN srcEach(baseUrl, d[i]) ELSE d[i]]

stylesheetsPass(baseUrl, d) ==
  [i \in DOMAIN d |-> IF d[i].tag = "link" /\ d[i].rel = "stylesheet"
                      THEN srcEach(baseUrl, d[i]) ELSE d[i]]

scriptsPass(baseUrl, d) ==
  [i \in DOMAIN d |-> IF d[i].tag = "script" THEN srcEach(baseUrl, d[i]) ELSE d[i]]

formsPass(baseUrl, d) ==
  [i \in DOMAIN d |-> IF d[i].tag = "form" THEN formEach(baseUrl, d[i]) ELSE d[i]]

PassNames == {"anchors", "images", "stylesheets", "scripts", "forms"}

\* the passes of a set in the order the handler runs them
InCodeOrder(names, baseUrl, d) ==
  LET d1 == IF "anchors" \in names THEN anchorsPass(baseUrl, d) ELSE d
      d2 == IF "images" \in names THEN imagesPass(baseUrl, d1) ELSE d1
      d3 == IF "stylesheets" \in names THEN stylesheetsPass(baseUrl, d2) ELSE d2
      d4 == IF "scripts" \in names THEN scriptsPass(baseUrl, d3) ELSE d3
  IN IF "forms" \in names THEN formsPass(baseUrl, d4) ELSE d4

\* baseUrl: the search URL the handler builds, and the base of the
\* documented example
DdgBase == <<"h","t","t","p","s",":","/","/","l","i","t","e",".","d","u","c","k","d","u","c","k","g","o",".","c","o","m","/","l","i","t","e","/","?","q","=","c","a","t","s">>
ExampleBase == <<"h","t","t","p","s",":","/","/","e","x","a","m","p","l","e",".","c","o","m","/","l","i","t","e","/">>
Bases == {DdgBase, ExampleBase}

\* the elements of upstream documents
Anchors ==
  { Element("a", "", FALSE, <<>>, "_blank", <<>>),
    Element("a", "", TRUE, <<"/","h","t","m","l","/","?","q","=","c","a","t","s","+","2">>, "_blank", <<>>),
    Element("a", "", TRUE, <<"H","T","T","P","S",":","/","/","E","x","a","m","p","l","e",".","C","O","M">>, "", <<>>),
    Element("a", "", TRUE, <<"J","a","v","a","S","c","r","i","p","t",":","v","o","i","d","(","0",")">>, "", <<>>),
    Element("a", "", TRUE, <<"m","a","i","l","t","o",":","s","o","m","e","o","n","e","@","e","x","a","m","p","l","e",".","c","o","m">>, "", <<>>),
    Element("a", "", TRUE, <<"h","t","t","p",":","/","/">>, "", <<>>) }

Images ==
  { Element("img", "", TRUE, <<"/","i","m","g","/","l","o","g","o",".","p","n","g">>, "", <<>>),
    Element("img", "", TRUE, <<>>, "", <<>>) }

Links ==
  { Element("link", "stylesheet", TRUE, <<"/","s",".","c","s","s">>, "", <<>>),
    Element("link", "icon", TRUE, <<"/","s",".","c","s","s">>, "", <<>>) }

Scripts ==
  { Element("script", "", TRUE, <<"/","/","c","d","n",".","e","x","a","m","p","l","e",".","c","o","m","/","x",".","j","s">>, "", <<>>) }

Forms ==
  { Element("form", "", FALSE, <<>>, "", <<>>),
    Element("form", "", TRUE, <<"/","l","i","t","e","/">>, "", <<"p","o","s","t">>),
    Element("form", "", TRUE, <<"h","t","t","p","s",":","/","/","e","v","i","l",".","e","x","a","m","p","l","e","/","l","i","t","e","/">>, "", <<"p","o","s","t">>),
    Element("form", "", TRUE, <<"h","t","t","p","s",":","/","/","d","u","c","k","d","u","c","k","g","o",".","c","o","m",".","e","v","i","l",".","e","x","a","m","p","l","e","/","s">>, "", <<>>),
    Element("form", "", TRUE, <<"/","s","u","b","m","i","t">>, "", <<"p","o","s","t">>) }

Elements == Anchors \cup Images \cup Links \cup Scripts \cup Forms

MaxElems == 2

\* the documents of up to MaxElems elements
Documents == UNION { [1..n -> Elements] : n \in 1..MaxElems }

RewriteInit ==
  /\ gUrl = NoUrl
  /\ gOut = "unset"
  /\ active = {}
  /\ req = [c \in Clients |-> IdleReq]
  /\ chain = [c \in Clients |-> IdleChain]
  /\ page \in { [baseUrl |-> b, orig |-> d, doc |-> d, done |-> {}] :
                  b \in Bases, d \in Documents }

\* the page after the pass of the given name left the document d
Passed(name, d) == [page EXCEPT !.doc = d, !.done = @ \cup {name}]

\* each pass runs once, over the document as the passes before it left it
RewriteAnchors ==
  /\ "anchors" \notin page.done
  /\ page' = Passed("anchors", anchorsPass(page.baseUrl, page.doc))
  /\ UNCHANGED <<gUrl, gOut, active, req, chain>>

RewriteImages ==
  /\ "images" \notin page.done
  /\ page' = Passed("images", imagesPass(page.baseUrl, page.doc))
  /\ UNCHANGED <<gUrl, gOut, active, req, chain>>

RewriteStylesheets ==
  /\ "stylesheets" \notin page.done
  /\ page' = Passed("stylesheets", stylesheetsPass(page.baseUrl, page.doc))
  /\ UNCHANGED <<gUrl, gOut, active, req, chain>>

RewriteScripts ==
  /\ "scripts" \notin page.done
  /\ page' = Passed("scripts", scriptsPass(page.baseUrl, page.doc))
  /\ UNCHANGED <<gUrl, gOut, active, req, chain>>

RewriteForms ==
  /\ "forms" \notin page.done
  /\ page' = Passed("forms", formsPass(page.baseUrl, page.doc))
  /\ UNCHANGED <<gUrl, gOut, active, req, chain>>

\* the five passes, in every order
RewriteNext ==
  \/ RewriteAnchors
  \/ RewriteImages
  \/ RewriteStylesheets
  \/ RewriteScripts
  \/ RewriteForms

RewriteSpec == RewriteInit /\ [][RewriteNext]_vars

(***************************************************************************)
(* The search URL of /search.  The fields query and form of a request are   *)
(* req.query and req.body of the source: lists of                           *)
(* <<name, value>> pairs of texts with distinct names, as the parsers of    *)
(* the front end hand them over for plain (non-nested, non-repeated)        *)
(* parameters.                                                              *)
(***************************************************************************)
\* obj[name], the empty text where it is undefined
ParamOf(ps, name) ==
  IF \E i \in 1..Len(ps) : ps[i][1] = name
  THEN ps[CHOOSE i \in 1..Len(ps) : ps[i][1] = name][2]
  ELSE <<>>

\* req.query.q || req.body.q
QueryOf(r) ==
  IF ParamOf(r.query, <<"q">>) # <<>> THEN ParamOf(r.query, <<"q">>)
  ELSE ParamOf(r.form, <<"q">>)

RECURSIVE FormEncode(_)
\* the application/x-www-form-urlencoded serializer of URLSearchParams on one
\* name or value: alphanumerics and * - . _ are kept, a space becomes +
FormEncode(t) ==
  IF t = <<>> THEN <<>>
  ELSE (IF t[1] \in Letters \cup Digits \cup {"*", "-", ".", "_"} THEN <<t[1]>>
        ELSE IF t[1] = " " THEN <<"+">>
        ELSE Escape(t[1]))
       \o FormEncode(Tail(t))

\* the endpoint followed by the query as the client sent it
ddgUrlText_Raw(r) == <<"h","t","t","p","s",":","/","/","l","i","t","e",".","d","u","c","k","d","u","c","k","g","o",".","c","o","m","/","l","i","t","e","/","?","q","=">> \o QueryOf(r)

\* `https://lite.duckduckgo.com/lite/?${params.toString()}`, params holding
\* the entries of { ...req.query, ...req.body }: the names of the query in
\* their order with the body's value where the body has the name, then the
\* body's other names
ddgUrlText(r) ==
  LET has(ps, name) == \E i \in 1..Len(ps) : ps[i][1] = name
      allParams ==
        [i \in 1..Len(r.query) |->
           IF has(r.form, r.query[i][1])
           THEN <<r.query[i][1], ParamOf(r.form, r.query[i][1])>>
           ELSE r.query[i]]
        \o SelectSeq(r.form, LAMBDA p : ~has(r.query, p[1]))
      RECURSIVE toString(_)
      toString(ps) ==
        IF ps = <<>> THEN <<>>
        ELSE FormEncode(ps[1][1]) \o <<"=">> \o FormEncode(ps[1][2])
             \o (IF Len(ps) > 1 THEN <<"&">> ELSE <<>>) \o toString(Tail(ps))
  IN <<"h","t","t","p","s",":","/","/","l","i","t","e",".","d","u","c","k","d","u","c","k","g","o",".","c","o","m","/","l","i","t","e","/","?">> \o toString(allParams)

\* the query and body parameters clients send
SearchInputs ==
  { [query |-> query, form |-> body] :
      query \in
        { <<>>,
          << <<<<"q">>, <<>> >> >>,
          << <<<<"q">>, <<"c","a","t","s">>>> >>,
          << <<<<"q">>, <<"c","a","t","s"," ","2">>>> >>,
          << <<<<"q">>, <<"x","#","y","&","q","=","z">>>> >>,
          << <<<<"q">>, <<"/",".",".","/","@","e","v","i","l",".","e","x","a","m","p","l","e","/","?">>>> >>,
          << <<<<"q">>, <<"c","a","t","s">>>>, <<<<"k","&","l">>, <<"1","/","2">>>> >>,
          << <<<<"k","l">>, <<"u","s","-","e","n">>>> >> },
      body \in
        { <<>>,
          << <<<<"q">>, <<"d","o","g","s">>>> >>,
          << <<<<"q">>, <<>> >> >>,
          << <<<<"k","l">>, <<"a","+","b","=","%","4","1">>>> >>,
          << <<<<"#">>, <<":">>>>, <<<<"q">>, <<"a","?","b">>>> >> } }

SearchInit ==
  /\ gUrl = NoUrl
  /\ gOut = "unset"
  /\ active = {1}
  /\ chain = [c \in Clients |-> IdleChain]
  /\ page = NoPage
  /\ \E input \in SearchInputs :
       req = [c \in Clients |->
                IF c \in active
                THEN [IdleReq EXCEPT !.query = input.query, !.form = input.form]
                ELSE IdleReq]

\* the handler up to its await, for the parameters the request carries
SearchArrive(c) ==
  /\ c \in active
  /\ req[c].phase = "idle"
  /\ \E m \in Methods :
       Route(c, searchRoute([req[c] EXCEPT !.entry = "search", !.method = m,
                                           !.chdrs = {"cookie"}],
                            QueryOf(req[c]) # <<>>))

SearchNext == \E c \in Clients : SearchArrive(c)

SearchSpec == SearchInit /\ [][SearchNext]_vars

(***************************************************************************)
(* Claims about the fetcher and the handlers (checked under Spec)          *)
(***************************************************************************)
\* a network request was issued for the chain's current URL
Issued(c) == chain[c].sent > 0

\* the current hop's request is open
InFlight(c) == chain[c].st \in {"sent", "body"}

\* C1: every network request nativeFetch issues, the first and every redirect
\* hop, goes to a URL that isBlockedUrl classifies as allowed.
C1_EveryHopAllowed ==
  \A c \in Clients : Issued(c) => ~isBlockedUrl(chain[c].url)

\* C2: /fetch called (any method) with a missing or blocked URL answers 400
\* and issues no network request.
C2_BlockedNoRequest ==
  \A c \in Clients :
    (req[c].entry = "fetch" /\ (req[c].raw.kind = "none" \/ isBlockedUrl(req[c].raw)))
      => (req[c].phase = "done" /\ req[c].status = 400 /\ chain[c].sent = 0)

\* C2 witness: a POST to /fetch for a loopback URL was answered 400
C2_Witness ==
  \E c \in Clients :
    /\ req[c].entry = "fetch" /\ req[c].method = "POST"
    /\ req[c].raw = LoopbackUrl
    /\ req[c].phase = "done" /\ req[c].status = 400

\* C3: with budget MAX_REDIRECTS, a chain that followed exactly that many
\* redirects and then read a non-redirect response to its end succeeds with
\* that response; a chain answered by one more redirect fails with 'Too many
\* redirects', which is the only way that error arises, and returns nothing.
C3_RedirectBudget ==
  \A c \in Clients :
    /\ (chain[c].hop = MAX_REDIRECTS /\ chain[c].st = "ended")
         => (chain[c].outcome = "fulfilled" /\ req[c].phase = "done"
             /\ (req[c].handler # "search" => req[c].status = chain[c].status))
    /\ chain[c].hop > MAX_REDIRECTS
         => (chain[c].outcome = "rejected" /\ chain[c].err = "Too many redirects"
             /\ chain[c].sent = MAX_REDIRECTS + 1 /\ req[c].status = 500)
    /\ chain[c].err = "Too many redirects" => chain[c].hop = MAX_REDIRECTS + 1

\* C3 witness: a chain of exactly MAX_REDIRECTS redirects ended in a 400
\* response that was relayed
C3_Witness ==
  \E c \in Clients :
    /\ chain[c].hop = MAX_REDIRECTS /\ chain[c].st = "ended"
    /\ chain[c].outcome = "fulfilled" /\ chain[c].sent = MAX_REDIRECTS + 1
    /\ req[c].status = 400

\* C4: the hop issued after a 303 uses GET whatever the previous method; the
\* hop issued after any other followed redirect keeps the previous method.
C4_MethodAfterRedirect ==
  [][\A c \in Clients :
       (chain[c].sent >= 1 /\ chain'[c].sent = chain[c].sent + 1)
         => chain'[c].method =
              (IF chain'[c].via = 303 THEN "GET" ELSE chain[c].method)]_vars

\* C4 witness: a POST chain is at a GET hop issued after a 303
C4_Witness ==
  \E c \in Clients :
    /\ req[c].handler = "post" /\ chain[c].hop >= 1 /\ chain[c].st = "sent"
    /\ chain[c].via = 303 /\ chain[c].method = "GET"

\* C8: every hop of a chain started with a timeout, the first and each hop
\* issued after a redirect, has that timeout armed while its request is open.
C8_EveryHopTimed ==
  \A c \in Clients : InFlight(c) => chain[c].timer

\* C9: every chain started by /fetch or /search eventually settles, so every
\* client request is eventually answered, even if upstream stays silent.
C9_EveryRequestAnswered ==
  \A c \in Clients : (req[c].phase = "pending") ~> (req[c].phase = "done")

GenericBodies ==
  {"Error fetching remote resource", "Error proxying POST"}

ChainErrors ==
  {"Too many redirects", "Request timed out", "ECONNRESET", "Invalid URL",
   "ERR_INVALID_PROTOCOL"}

\* C10: at /fetch a missing, unparsable or blocked URL yields 400; a chain
\* that failed (too many redirects, timeout, network error, unparsable
\* Location) yields 500 with a fixed generic body that is not the error's
\* text; a failed chain never leaves the request unanswered.
C10_FailureOutcomes ==
  \A c \in Clients :
    req[c].entry = "fetch" =>
      /\ (req[c].raw.kind = "none" \/ ~ParseUrl(req[c].raw).ok
          \/ isBlockedUrl(req[c].raw))
           => (req[c].phase = "done" /\ req[c].status = 400)
      /\ chain[c].outcome = "rejected"
           => /\ chain[c].err \in ChainErrors
              /\ req[c].phase = "done" /\ req[c].status = 500
              /\ req[c].body \in GenericBodies
              /\ req[c].body \notin ChainErrors

\* C10 witness: a /fetch chain failed on an unparsable redirect Location and
\* the client got the generic 500
C10_Witness ==
  \E c \in Clients :
    /\ req[c].entry = "fetch" /\ chain[c].err = "Invalid URL"
    /\ chain[c].hop >= 1
    /\ req[c].status = 500 /\ req[c].body = "Error fetching remote resource"

\* C11: a successful fetch through /fetch relays the final upstream status
\* and body, and relays no upstream header outside cache-control,
\* content-length, content-type, last-modified, etag.
C11_RelayAllowList ==
  \A c \in Clients :
    (req[c].entry = "fetch" /\ chain[c].outcome = "fulfilled") =>
      /\ req[c].phase = "done"
      /\ req[c].status = chain[c].status
      /\ req[c].body = "upstream body" /\ req[c].len = chain[c].chunks
      /\ req[c].relayed \subseteq (chain[c].headers \cap AllowedHeaders)

\* C11 witness: a PUT through /fetch ended with a response carrying
\* set-cookie, transfer-encoding and location, of which only content-type and
\* content-length were relayed
C11_Witness ==
  \E c \in Clients :
    /\ req[c].entry = "fetch" /\ req[c].method = "PUT"
    /\ chain[c].outcome = "fulfilled"
    /\ {"set-cookie", "transfer-encoding", "location"} \subseteq chain[c].headers
    /\ req[c].relayed = {"content-type", "content-length"}
    /\ req[c].status = 200 /\ req[c].len = 1

\* C16: the budget falls by one per followed redirect and is tested before
\* anything else: a hop called with a budget below zero fails without a
\* request, so a chain issues at most MAX_REDIRECTS + 1 requests.
C16_BudgetBoundsRequests ==
  \A c \in Clients :
    chain[c].st # "none" =>
      /\ chain[c].budget = MAX_REDIRECTS - chain[c].hop
      /\ chain[c].sent <= MAX_REDIRECTS + 1
      /\ chain[c].sent \in {chain[c].hop, chain[c].hop + 1}
      /\ InFlight(c) => (chain[c].budget >= 0 /\ chain[c].sent = chain[c].hop + 1)
      /\ chain[c].budget < 0 =>
           (chain[c].sent = chain[c].hop /\ chain[c].outcome = "rejected"
            /\ chain[c].err = "Too many redirects")

\* C16 witness: a redirect loop was cut after MAX_REDIRECTS + 1 requests
C16_Witness ==
  \E c \in Clients :
    /\ chain[c].budget = -1 /\ chain[c].sent = MAX_REDIRECTS + 1
    /\ chain[c].location = RelUrl("/confirm")
    /\ chain[c].url.path = "/confirm"
    /\ chain[c].outcome = "rejected"

\* the step follows a redirect of client c within the budget
Followed(c) ==
  chain'[c].hop = chain[c].hop + 1 /\ chain'[c].budget >= 0

\* C17: at each followed redirect the next hop's URL is the Location header
\* resolved against the URL of the hop that received it; a Location that does
\* not resolve fails the chain with 'Invalid URL' and issues no request.
C17_LocationAgainstCurrent ==
  [][\A c \in Clients :
       Followed(c) =>
         LET next == resolveUrl(chain[c].url, chain'[c].location)
         IN /\ chain'[c].sent = chain[c].sent + 1 => chain'[c].url = next
            /\ (ParseUrl(next).ok /\ ParseUrl(next).protocol \in HttpProtocols)
                 => chain'[c].sent = chain[c].sent + 1
            /\ ~ParseUrl(next).ok =>
                 /\ chain'[c].outcome = "rejected"
                 /\ chain'[c].err = "Invalid URL"
                 /\ chain'[c].sent = chain[c].sent]_vars

\* C17 witness: a /search chain redirected to example.com/next and then to
\* /confirm is at example.com/confirm, not at the search host
C17_Witness ==
  \E c \in Clients :
    /\ req[c].entry = "search" /\ chain[c].hop = 2 /\ chain[c].st = "sent"
    /\ chain[c].location = RelUrl("/confirm")
    /\ chain[c].url = AbsUrl(T_http, NameHost(T_example), "/confirm")

\* C18: once a chain has failed no further request is issued for it and the
\* failure stays its outcome, reported as the handler's error response; a
\* chain issues a second request only by following a redirect response.
C18_NoRetry ==
  [][\A c \in Clients :
       /\ chain[c].outcome = "rejected" =>
            /\ chain'[c].sent = chain[c].sent
            /\ chain'[c].outcome = "rejected" /\ chain'[c].err = chain[c].err
            /\ req[c].phase = "done" /\ req[c].status = 500
            /\ req'[c] = req[c]
       /\ (chain[c].sent >= 1 /\ chain'[c].sent # chain[c].sent) =>
            /\ chain'[c].sent = chain[c].sent + 1
            /\ chain[c].st = "sent"
            /\ chain'[c].hop = chain[c].hop + 1
            /\ chain'[c].via >= 300 /\ chain'[c].via < 400
            /\ chain'[c].location.kind # "none"]_vars

\* C18 witness: a chain that timed out at its first hop then had the socket
\* error of the aborted request delivered, still with one request issued
C18_Witness ==
  \E c \in Clients :
    /\ chain[c].err = "Request timed out" /\ chain[c].st = "failed"
    /\ chain[c].sent = 1 /\ req[c].status = 500

\* the header names of the current hop's request that come from the caller
CallerHeaders(c) == chain[c].hdrs

\* C19 (as claimed): every upstream request carries caller headers among
\* user-agent and accept only, and a body only if its method is neither GET
\* nor HEAD.
C19_ForwardedHeaders ==
  \A c \in Clients :
    Issued(c) =>
      /\ CallerHeaders(c) \subseteq {"user-agent", "accept"}
      /\ chain[c].wrote => chain[c].method \notin {"GET", "HEAD"}

\* C19 (amended): every upstream request carries caller headers among
\* user-agent, accept and content-type, content-type only in a chain started
\* by the POST branch of /fetch, and a body only if its method is neither GET
\* nor HEAD.
C19_ForwardedHeadersAmended ==
  \A c \in Clients :
    Issued(c) =>
      /\ CallerHeaders(c) \subseteq {"user-agent", "accept", "content-type"}
      /\ "content-type" \in CallerHeaders(c) => req[c].handler = "post"
      /\ chain[c].wrote => chain[c].method \notin {"GET", "HEAD"}

\* C19 witness: a client that sent cookie and authorization headers had a
\* redirect hop issued with user-agent and accept only
C19_Witness ==
  \E c \in Clients :
    /\ {"cookie", "authorization"} \subseteq req[c].chdrs
    /\ chain[c].hop >= 1 /\ chain[c].st = "sent"
    /\ CallerHeaders(c) = {"user-agent", "accept"}

\* C22: once a chain has an outcome no later event of any hop changes the
\* outcome, the error or the result, and once the client request has its
\* response no event changes it; the outcome and the response come together.
C22_SettlesOnce ==
  [][\A c \in Clients :
       /\ chain[c].outcome # "pending" =>
            /\ chain'[c].outcome = chain[c].outcome
            /\ chain'[c].err = chain[c].err
            /\ chain'[c].status = chain[c].status
            /\ chain'[c].headers = chain[c].headers
            /\ chain'[c].chunks = chain[c].chunks
            /\ req[c].phase = "done"
       /\ req[c].phase = "done" => req'[c] = req[c]]_vars

\* C22 witness: the timer of the first hop has fired after the body ended;
\* the chain is still fulfilled and the client still has its 200 response
C22_Witness ==
  \E c \in Clients :
    /\ chain[c].outcome = "fulfilled" /\ chain[c].hop = 0
    /\ chain[c].timer /\ ~chain[c].stale /\ chain[c].st = "ended"
    /\ req[c].phase = "done" /\ req[c].status = 200 /\ req[c].len = 1

\* C23: a hop issued after a redirect carries no body and the headers of the
\* hop before it, with the method of that hop, or GET after a 303.
C23_RedirectHopNoBody ==
  [][\A c \in Clients :
       (chain[c].sent >= 1 /\ chain'[c].sent = chain[c].sent + 1) =>
         /\ ~chain'[c].wrote
         /\ chain'[c].hdrs = chain[c].hdrs
         /\ chain'[c].via # 303 => chain'[c].method = chain[c].method
         /\ chain'[c].via = 303 => chain'[c].method = "GET"]_vars

\* C23 witness: a POST through /fetch that wrote its body was redirected with
\* a status other than 303 and is at a POST hop with content-type and no body
C23_Witness ==
  \E c \in Clients :
    /\ req[c].handler = "post" /\ chain[c].hop = 1 /\ chain[c].st = "sent"
    /\ chain[c].via = 399 /\ chain[c].method = "POST"
    /\ chain[c].hdrs = {"content-type"} /\ ~chain[c].wrote

\* the status is a redirect status
IsRedirectStatus(statusCode) == statusCode >= 300 /\ statusCode < 400

\* C24: a response is followed only if its status is in 300-399 and it has a
\* Location header; any other response is final: it spends no budget, issues
\* no request, and its status and headers are the result's.
C24_FinalResponse ==
  [][\A c \in Clients :
       /\ chain'[c].hop # chain[c].hop =>
            (IsRedirectStatus(chain'[c].via) /\ chain'[c].location.kind # "none")
       /\ (chain[c].st = "sent" /\ chain'[c].st = "body") =>
            /\ ~(IsRedirectStatus(chain'[c].status)
                 /\ "location" \in chain'[c].headers)
            /\ chain'[c].hop = chain[c].hop
            /\ chain'[c].budget = chain[c].budget
            /\ chain'[c].sent = chain[c].sent
            /\ chain'[c].url = chain[c].url
       /\ (chain[c].st = "body" /\ chain'[c].outcome = "fulfilled") =>
            /\ chain'[c].status = chain[c].status
            /\ chain'[c].headers = chain[c].headers
            /\ chain'[c].sent = chain[c].sent]_vars

\* C24 witness: a 300 response without Location was returned as the result of
\* a chain that issued one request and kept its whole budget
C24_Witness ==
  \E c \in Clients :
    /\ chain[c].outcome = "fulfilled"
    /\ chain[c].status = 300 /\ "location" \notin chain[c].headers
    /\ chain[c].sent = 1 /\ chain[c].budget = MAX_REDIRECTS
    /\ req[c].entry = "fetch" /\ req[c].status = 300

\* what one event makes of a request handled alone: its handler state r and
\* chain ch after a request arrives, or after one event of its own chain
Alone(r, ch) ==
  LET settle(ch2) == <<afterAwait(r, ch2), ch2>>
  IN (IF r.phase = "idle"
      THEN { <<out.r, out.ch>> : out \in ConcArrivals(r) } ELSE {})
     \cup (IF ch.st = "sent"
           THEN { settle(ch2) : ch2 \in ConcResponses(ch) } ELSE {})
     \cup (IF ch.st = "body" /\ ch.chunks < MaxChunks
           THEN { settle([ch EXCEPT !.chunks = @ + 1]) } ELSE {})
     \cup (IF ch.st = "body" THEN { settle(onEnd(ch)) } ELSE {})
     \cup (IF ch.st \in {"sent", "body", "aborted"}
           THEN { settle(onError(ch)) } ELSE {})
     \cup (IF ch.st \in {"sent", "body"} /\ ch.timer
           THEN { settle(onTimeout(ch)) } ELSE {})
     \cup (IF ch.stale THEN { settle(onStaleTimeout(ch)) } ELSE {})

Rewritten == page.done = PassNames

\* the element is of a kind the anchor, image, stylesheet or script pass selects
Referencing(el) ==
  el.tag \in {"a", "img", "script"} \/ (el.tag = "link" /\ el.rel = "stylesheet")

\* the resolved URL of an anchor is one the anchor pass leaves alone
Exempt(resolved) ==
  StartsWith(resolved, T_javascriptColon) \/ StartsWith(resolved, T_mailtoColon)

\* the value of a hexadecimal digit
HexValue(c) == (CHOOSE i \in 1..16 : UpperHexChars[i] = c) - 1

RECURSIVE PercentDecode(_)
\* the text a percent-encoded text stands for
PercentDecode(t) ==
  IF t = <<>> THEN <<>>
  ELSE IF t[1] = "%"
  THEN <<CHOOSE c \in DOMAIN CharCode :
           CharCode[c] = 16 * HexValue(t[2]) + HexValue(t[3])>>
       \o PercentDecode(Drop(t, 3))
  ELSE <<t[1]>> \o PercentDecode(Tail(t))

\* the value is '/fetch?url=' followed by a percent-encoding of the URL
IsProxyRefTo(val, resolved) ==
  /\ StartsWith(val, T_fetchPrefix)
  /\ LET enc == Drop(val, Len(T_fetchPrefix))
     IN /\ \A i \in 1..Len(enc) : enc[i] \in Unreserved \cup {"%"}
        /\ PercentDecode(enc) = resolved

\* C12: after the rewrite, every anchor href (not javascript: or mailto:),
\* image src, stylesheet href and script src that resolves against the base
\* is '/fetch?url=' plus the percent-encoded absolute URL it resolves to, and
\* every rewritten anchor has target '_self'.
C12_ProxyReferences ==
  Rewritten =>
    \A i \in DOMAIN page.doc :
      LET o == page.orig[i]
          e == page.doc[i]
          r == resolveHref(page.baseUrl, Attr(o))
      IN (Referencing(o) /\ Attr(o) # <<>> /\ r # Null
          /\ (o.tag = "a" => ~Exempt(r)))
           => /\ SchemeEnd(r) > 0
              /\ e.has /\ IsProxyRefTo(e.val, r)
              /\ o.tag = "a" => e.target = T_self

\* C12 witness: under base https://example.com/lite/ the image /img/logo.png
\* and the anchor /html/?q=cats+2 were rewritten to the documented texts
C12_Witness ==
  /\ Rewritten
  /\ page.baseUrl = ExampleBase
  /\ \E i, j \in DOMAIN page.doc :
       /\ page.orig[i].tag = "img" /\ page.orig[i].val = <<"/","i","m","g","/","l","o","g","o",".","p","n","g">>
       /\ page.doc[i].val = <<"/","f","e","t","c","h","?","u","r","l","=","h","t","t","p","s","%","3","A","%","2","F","%","2","F","e","x","a","m","p","l","e",".","c","o","m","%","2","F","i","m","g","%","2","F","l","o","g","o",".","p","n","g">>
       /\ page.orig[j].tag = "a" /\ page.orig[j].val = <<"/","h","t","m","l","/","?","q","=","c","a","t","s","+","2">>
       /\ page.doc[j].val = <<"/","f","e","t","c","h","?","u","r","l","=","h","t","t","p","s","%","3","A","%","2","F","%","2","F","e","x","a","m","p","l","e",".","c","o","m","%","2","F","h","t","m","l","%","2","F","%","3","F","q","%","3","D","c","a","t","s","%","2","B","2">>
       /\ page.doc[j].target = T_self

\* C13: an anchor, image, link or script whose reference attribute is absent
\* or empty, does not resolve against the base, or (anchors) resolves to a
\* javascript: or mailto: URL keeps its attributes as they were.
C13_LeftUnchanged ==
  \A i \in DOMAIN page.doc :
    LET o == page.orig[i]
        r == resolveHref(page.baseUrl, Attr(o))
    IN (/\ o.tag \in {"a", "img", "link", "script"}
        /\ \/ Attr(o) = <<>>
           \/ r = Null
           \/ o.tag = "a" /\ Exempt(r))
         => page.doc[i] = o

\* C13 witness: after the rewrite an anchor written JavaScript:void(0) and an
\* anchor whose href http:// does not resolve are as they were, without target
C13_Witness ==
  /\ Rewritten
  /\ \E i, j \in DOMAIN page.doc :
       /\ page.orig[i].tag = "a" /\ page.orig[i].val = <<"J","a","v","a","S","c","r","i","p","t",":","v","o","i","d","(","0",")">>
       /\ page.doc[i].val = <<"J","a","v","a","S","c","r","i","p","t",":","v","o","i","d","(","0",")">> /\ page.doc[i].target = ""
       /\ page.orig[j].tag = "a" /\ page.orig[j].val = <<"h","t","t","p",":","/","/">>
       /\ page.doc[j].val = <<"h","t","t","p",":","/","/">> /\ page.doc[j].target = ""

\* the URL addresses the upstream search endpoint
TargetsSearch(resolved) ==
  /\ BaseScheme(resolved) \in SpecialSchemes
  /\ Drop(BaseOrigin(resolved), Len(BaseScheme(resolved)) + 2) = T_ddg
  /\ BasePath(resolved) = T_lite

\* the method attribute, GET where absent, letter case aside
MethodOf(el) == ToUpper(IF el.method = <<>> THEN T_GET ELSE el.method)

\* C14: after the rewrite every form, R being its action resolved against the
\* base (the base itself for an empty or missing action), has action
\* '/search' and method GET if R is the upstream search endpoint, and
\* otherwise, if R resolves, action '/fetch?url=' plus the encoded R and its
\* original method.
C14_FormActions ==
  Rewritten =>
    \A i \in DOMAIN page.doc :
      LET o == page.orig[i]
          e == page.doc[i]
          R == resolveHref(page.baseUrl, Attr(o))
      IN (o.tag = "form" /\ R # Null) =>
           IF TargetsSearch(R)
           THEN e.has /\ e.val = T_searchPath /\ e.method = T_GET
           ELSE e.has /\ IsProxyRefTo(e.val, R) /\ MethodOf(e) = MethodOf(o)

\* C20: the passes applied so far, in whatever order they ran, leave the
\* document the handler's order of the same passes leaves.
C20_PassesCommute ==
  page.doc = InCodeOrder(page.done, page.baseUrl, page.orig)

\* C20 witness: the form, script and image passes ran before the anchor
\* pass: a form is rewritten while an anchor that the anchor pass rewrites is
\* still as upstream wrote it
C20_Witness ==
  /\ page.done = {"forms", "scripts", "images"}
  /\ \E i, j \in DOMAIN page.doc :
       /\ page.orig[i].tag = "form" /\ page.doc[i] # page.orig[i]
       /\ page.orig[j].tag = "a" /\ page.doc[j] = page.orig[j]
       /\ anchorEach(page.baseUrl, page.orig[j]) # page.orig[j]

(***************************************************************************)
(* Claims about the search URL (checked under SearchSpec)                  *)
(***************************************************************************)
RECURSIVE JoinText(_)
\* the string of a text
JoinText(t) == IF t = <<>> THEN "" ELSE t[1] \o JoinText(Tail(t))

RECURSIVE FormDecode(_)
\* the text a form-encoded name or value stands for
FormDecode(t) ==
  IF t = <<>> THEN <<>>
  ELSE IF t[1] = "+" THEN <<" ">> \o FormDecode(Tail(t))
  ELSE IF t[1] = "%" /\ Len(t) >= 3
  THEN <<CHOOSE c \in DOMAIN CharCode :
           CharCode[c] = 16 * HexValue(t[2]) + HexValue(t[3])>>
       \o FormDecode(Drop(t, 3))
  ELSE <<t[1]>> \o FormDecode(Tail(t))

RECURSIVE QueryPairs(_)
\* the <<name, value>> pairs a query string without its "?" is read as
QueryPairs(t) ==
  IF t = <<>> THEN <<>>
  ELSE LET a == IndexOfAny(t, {"&"})
           pair == Take(t, a - 1)
           e == IndexOfAny(pair, {"="})
       IN << <<FormDecode(Take(pair, e - 1)), FormDecode(Drop(pair, e))>> >>
          \o QueryPairs(Drop(t, a))

\* the parameters the client sent: the names of the query and of the body,
\* each with the body's value if the body has it and the query's otherwise
ClientParams(r) ==
  LET value(ps, name) == ps[CHOOSE i \in 1..Len(ps) : ps[i][1] = name][2]
      names(ps) == {ps[i][1] : i \in 1..Len(ps)}
  IN {<<name, IF name \in names(r.form) THEN value(r.form, name)
               ELSE value(r.query, name)>> :
        name \in names(r.query) \cup names(r.form)}

\* C21: a /search request with a query q has issued one upstream request,
\* whose URL parses to scheme https, host lite.duckduckgo.com, path /lite/,
\* no fragment, and a query string of safe characters that reads back as the
\* client's parameters, one pair each; a request without q is answered 302
\* to '/' and issues no upstream request.
C21_SearchEndpoint ==
  \A c \in Clients :
    (req[c].entry = "search" /\ req[c].phase # "idle") =>
      IF \A ps \in {req[c].query, req[c].form} :
           \A i \in 1..Len(ps) : ps[i][1] = <<"q">> => ps[i][2] = <<>>
      THEN /\ req[c].phase = "done" /\ req[c].status = 302 /\ req[c].body = "/"
           /\ chain[c].sent = 0
      ELSE LET u == ParseAbsolute(ddgUrlText(req[c]))
               query == Drop(BaseQuery(u), 1)
               pairs == QueryPairs(query)
           IN /\ chain[c].sent = 1 /\ chain[c].hop = 0
              /\ chain[c].url = ddgUrl
              /\ u # Null
              /\ BaseScheme(u) = <<"h","t","t","p","s",":">>
              /\ BaseOrigin(u) = <<"h","t","t","p","s",":","/","/","l","i","t","e",".","d","u","c","k","d","u","c","k","g","o",".","c","o","m">>
              /\ BasePath(u) = <<"/","l","i","t","e","/">>
              /\ u = BaseOrigin(u) \o BasePath(u) \o BaseQuery(u)
              /\ BaseScheme(u) = chain[c].url.scheme \o <<":">>
              /\ BaseOrigin(u) = BaseScheme(u) \o <<"/", "/">> \o chain[c].url.host.name
              /\ JoinText(BasePath(u)) = chain[c].url.path
              /\ \A i \in 1..Len(query) :
                   query[i] \in Letters \cup Digits
                                \cup {"*", "-", ".", "_", "+", "%", "&", "="}
              /\ {pairs[i] : i \in 1..Len(pairs)} = ClientParams(req[c])
              /\ Len(pairs) = Cardinality(ClientParams(req[c]))

\* C21 witness: q = '/../@evil.example/?' sent by GET with no body went to the
\* search endpoint with the value escaped in the query string
C21_Witness ==
  \E c \in Clients :
    /\ req[c].entry = "search" /\ req[c].phase = "pending"
    /\ req[c].method = "GET"
    /\ req[c].query = << <<<<"q">>, <<"/",".",".","/","@","e","v","i","l",".","e","x","a","m","p","l","e","/","?">>>> >>
    /\ req[c].form = <<>>
    /\ chain[c].sent = 1 /\ chain[c].url = ddgUrl /\ ~chain[c].wrote
    /\ ddgUrlText(req[c]) =
         <<"h","t","t","p","s",":","/","/","l","i","t","e",".","d","u","c","k","d","u","c","k","g","o",".","c","o","m","/","l","i","t","e","/","?","q","=","%","2","F",".",".","%","2","F","%","4","0","e","v","i","l",".","e","x","a","m","p","l","e","%","2","F","%","3","F">>

(***************************************************************************)
(* Claims about the guard (checked under GuardSpec)                        *)
(***************************************************************************)
\* the URL text parses and its scheme, in any letter case, is http or https
IsHttpUrl(u) == ParseUrl(u).ok /\ ToLower(u.scheme) \in {T_http, T_https}

\* the host is one of the four denied names or addresses
DeniedExact(h) ==
  \/ h.t = "name" /\ ToLower(h.name) \in {T_localhost, T_metadata}
  \/ h.t = "v4" /\ h.nums \in {<<0, 0, 0, 0>>, <<169, 254, 169, 254>>}

\* the host is an IPv4 literal of 127/8, 10/8, 172.16/12, 192.168/16 or
\* 169.254/16, by its numbers
PrivateV4(h) ==
  /\ h.t = "v4"
  /\ \/ h.nums[1] \in {127, 10}
     \/ h.nums[1] = 172 /\ h.nums[2] >= 16 /\ h.nums[2] <= 31
     \/ h.nums[1] = 192 /\ h.nums[2] = 168
     \/ h.nums[1] = 169 /\ h.nums[2] = 254

\* the host is the IPv6 loopback ::1 or lies in fe80::/10 or fc00::/7, by its
\* numbers
PrivateV6(h) ==
  /\ h.t = "v6"
  /\ \/ h.nums = <<0, 0, 0, 0, 0, 0, 0, 1>>
     \/ h.nums[1] >= 65152 /\ h.nums[1] <= 65215
     \/ h.nums[1] >= 64512 /\ h.nums[1] <= 65023

\* C5: an http/https URL (any letter case) whose host is localhost, 0.0.0.0,
\* 169.254.169.254, metadata.google.internal or a private, loopback or
\* link-local IPv4 literal is classified blocked; an IPv4 literal outside
\* those ranges (and not 0.0.0.0) is classified allowed.
C5_PrivateV4Blocked ==
  (gOut # "unset" /\ IsHttpUrl(gUrl)) =>
    /\ (DeniedExact(gUrl.host) \/ PrivateV4(gUrl.host)) => gOut = "blocked"
    /\ (gUrl.host.t = "v4" /\ ~PrivateV4(gUrl.host) /\ ~DeniedExact(gUrl.host))
         => gOut = "allowed"

\* C5 witness: HTTP://172.31.x.x was classified blocked and so was a
\* mixed-case localhost
C5_Witness ==
  /\ gOut = "blocked"
  /\ gUrl.kind = "abs"
  /\ gUrl.scheme = <<"H","T","T","P">>
  /\ gUrl.host.t = "v4" /\ gUrl.host.nums[1] = 172 /\ gUrl.host.nums[2] = 31

\* C6: an http/https URL whose host is the IPv6 literal ::1 or lies in
\* fe80::/10 or fc00::/7 is classified blocked.
C6_PrivateV6Blocked ==
  (gOut # "unset" /\ IsHttpUrl(gUrl) /\ PrivateV6(gUrl.host)) => gOut = "blocked"

\* C7: an empty, unparsable or non-http(s) input is classified blocked, and
\* only http/https URLs are classified allowed.
C7_NonHttpBlocked ==
  gOut # "unset" =>
    /\ (gUrl.kind \in {"none", "null"} \/ ~ParseUrl(gUrl).ok
        \/ ToLower(gUrl.scheme) \notin {T_http, T_https}) => gOut = "blocked"
    /\ gOut = "allowed" => IsHttpUrl(gUrl)

\* C7 witness: a file: URL with a public host name was classified blocked
C7_Witness ==
  /\ gOut = "blocked"
  /\ gUrl.kind = "abs" /\ gUrl.scheme = T_file
  /\ gUrl.host = NameHost(T_example)

====
